---- MODULE Spec2Model ----
(***************************************************************************)
(* A model of the label-sequence utilities of biolab_utilities             *)
(* (putemg_utilities.py): moving_window_stride, filter_transitions,        *)
(* filter_smart, vgg_filter and filter_recognition.                        *)
(*                                                                         *)
(* Every function is a call: Init draws the arguments, the actions run the *)
(* body (loops one iteration per step) and leave the returned value in     *)
(* `result`.  numpy arrays are sequences; Python index i is element i + 1. *)
(***************************************************************************)
EXTENDS Integers, Sequences, FiniteSets, TLC

VARIABLES
    pc,      \* position in the called function: "call", a loop label, "done"
    args,    \* the arguments of the call (the caller's arrays included)
    locals,  \* the local variables of the running function
    result   \* the returned value, or the raised error

vars == <<pc, args, locals, result>>

None == [none |-> TRUE]

Raised(name) == [error |-> name]

IsError(r) == "error" \in DOMAIN r

(***************************************************************************)
(* Bounds of the explored inputs.                                          *)
(***************************************************************************)
StrideMaxLen == 4
MaxWindow == 3
MaxStep == 3

\* all sequences over S of length 0..n
SeqsUpTo(S, n) == UNION {[1..k -> S] : k \in 0..n}

\* the array <<F(1), ..., F(n)>>, built element by element
Array(n, F(_)) ==
    LET build[k \in 0..n] == IF k = 0 THEN <<>> ELSE Append(build[k - 1], F(k))
    IN  build[n]

\* Python's a[i] for 0 <= i < len(a)
At(a, i) == a[i + 1]

\* Python's range(len(a))
Idx(a) == 0..(Len(a) - 1)

(***************************************************************************)
(* moving_window_stride                                                    *)
(***************************************************************************)
SampleValues == {0, 1}

\* as_strided(array, shape=(win_count, window), strides=(stride*step, stride)):
\* element (i, j) of the view is the array element at offset i*step + j.
\* A negative dimension is refused by numpy.
as_strided(array, win_count, window, step) ==
    Array(win_count, LAMBDA i :
        Array(window, LAMBDA j : array[(i - 1) * step + (j - 1) + 1]))

\* np.arange(start, stop, step) for step > 0
RECURSIVE arange(_, _, _)
arange(start, stop, step) ==
    IF start >= stop THEN <<>> ELSE <<start>> \o arange(start + step, stop, step)

\* line 59 without the `+ step`
WinCountBad(array, window, step) == (Len(array) - window) \div step

WinCount(array, window, step) == (Len(array) - window + step) \div step

moving_window_stride(array, window, step) ==
    IF step = 0 THEN Raised("ZeroDivisionError")
    ELSE LET win_count == WinCount(array, window, step)
         IN  IF win_count < 0 \/ window < 0 THEN Raised("ValueError")
             ELSE [strided |-> as_strided(array, win_count, window, step),
                   index   |-> arange(window - 1, window + (win_count - 1) * step, step)]

StrideInit ==
    /\ pc = "call"
    /\ args \in [fn : {"moving_window_stride"},
                 array : SeqsUpTo(SampleValues, StrideMaxLen),
                 window : 0..MaxWindow,
                 step : 0..MaxStep]
    /\ locals = None
    /\ result = None

StrideCall ==
    /\ pc = "call"
    /\ args.fn = "moving_window_stride"
    /\ result' = moving_window_stride(args.array, args.window, args.step)
    /\ pc' = "done"
    /\ UNCHANGED <<args, locals>>

StrideNext == StrideCall

SpecStride == StrideInit /\ [][StrideNext]_vars

StrideDone == pc = "done" /\ args.fn = "moving_window_stride"

\* C1: for N >= W >= 1 and S >= 1 the call returns floor((N-W+S)/S) views and as
\* many indices, indices[0] = W-1, consecutive indices differ by S, view i is
\* array[i*S .. i*S+W-1], and the last element of view i is array[indices[i]].
C1_StrideContract ==
    (StrideDone /\ args.window >= 1 /\ args.step >= 1 /\ Len(args.array) >= args.window) =>
        LET N == Len(args.array)
            W == args.window
            S == args.step
            count == (N - W + S) \div S
        IN  /\ ~IsError(result)
            /\ Len(result.strided) = count
            /\ Len(result.index) = count
            /\ At(result.index, 0) = W - 1
            /\ \A i \in 0..(count - 2) : At(result.index, i + 1) - At(result.index, i) = S
            /\ \A i \in 0..(count - 1) :
                  /\ Len(At(result.strided, i)) = W
                  /\ \A j \in 0..(W - 1) : At(At(result.strided, i), j) = At(args.array, i * S + j)
                  /\ At(At(result.strided, i), W - 1) = At(args.array, At(result.index, i))

\* a call with several overlapping views over an array holding both values
C1_Witness ==
    /\ StrideDone
    /\ args.window = 2 /\ args.step = 1 /\ Len(args.array) = 4
    /\ args.array = <<0, 1, 1, 0>>
    /\ ~IsError(result)
    /\ Len(result.strided) = 3

\* C14: a call with window < 1, or step < 1, or len(array) < window fails with
\* an error and returns no (views, indices) result, empty or zero-width views
\* included.
C14_InvalidWindowFails ==
    (StrideDone /\ (args.window < 1 \/ args.step < 1 \/ Len(args.array) < args.window)) =>
        IsError(result)

(***************************************************************************)
(* numpy / scipy helpers shared by the label filters                       *)
(***************************************************************************)
TransitionsMaxLen == 4
MaxExp == 2

\* a float array element: a number or NaN
NaN == [nan |-> TRUE, v |-> 0]

Float(x) == [nan |-> FALSE, v |-> x]

\* array.astype('float')
astype_float(a) == Array(Len(a), LAMBDA i : Float(a[i]))

\* np.putmask(a, mask, value) with a scalar value
putmask(a, mask, value) == Array(Len(a), LAMBDA i : IF mask[i] THEN value ELSE a[i])

\* np.diff on a float array: NaN wherever either operand is NaN
np_diff(a) ==
    Array(Len(a) - 1, LAMBDA i :
        IF a[i].nan \/ a[i + 1].nan THEN NaN ELSE Float(a[i + 1].v - a[i].v))

\* x != 0 on floats: NaN != 0 is True
NonZero(x) == x.nan \/ x.v # 0

np_logical_and(a, b) == Array(Len(a), LAMBDA i : a[i] /\ b[i])

np_logical_or(a, b) == Array(Len(a), LAMBDA i : a[i] \/ b[i])

np_logical_not(a) == Array(Len(a), LAMBDA i : ~a[i])

\* np.full(shape, value)
np_full(n, value) == Array(n, LAMBDA i : value)

\* the set of Python indices at which a boolean array is True
TrueAt(mask) == {i \in Idx(mask) : At(mask, i)}

\* One pass of scipy.ndimage.binary_dilation over a 1-D array with a 3-element
\* structure, origin 0, border_value 0: the union of the translates of the
\* structure (offsets j - 1 for structure[j] set) placed at every True element.
Dilate1(mask, structure) ==
    Array(Len(mask), LAMBDA x :
        \E j \in 1..3 : /\ structure[j] = 1
                        /\ (x - (j - 2)) \in 1..Len(mask)
                        /\ mask[x - (j - 2)])

\* One pass of binary_erosion with the frames past the border taken as True
Erode1Bad(mask, structure) ==
    Array(Len(mask), LAMBDA x :
        \A j \in 1..3 : (structure[j] = 1 /\ (x + (j - 2)) \in 1..Len(mask)) =>
                        mask[x + (j - 2)])

\* One pass of scipy.ndimage.binary_erosion, border_value 0: True where every
\* set element of the structure lies on a True element inside the array.
Erode1(mask, structure) ==
    Array(Len(mask), LAMBDA x :
        \A j \in 1..3 : structure[j] = 1 =>
                        /\ (x + (j - 2)) \in 1..Len(mask)
                        /\ mask[x + (j - 2)])

\* iterations >= 1: that many passes; iterations < 1: repeated until no change
RECURSIVE binary_dilation(_, _, _)
binary_dilation(mask, structure, iterations) ==
    LET d == Dilate1(mask, structure)
    IN  IF iterations = 1 THEN d
        ELSE IF iterations > 1 THEN binary_dilation(d, structure, iterations - 1)
        ELSE IF d = mask THEN mask ELSE binary_dilation(d, structure, iterations)

RECURSIVE binary_erosion(_, _, _)
binary_erosion(mask, structure, iterations) ==
    LET e == Erode1(mask, structure)
    IN  IF iterations = 1 THEN e
        ELSE IF iterations > 1 THEN binary_erosion(e, structure, iterations - 1)
        ELSE IF e = mask THEN mask ELSE binary_erosion(e, structure, iterations)

\* generate_binary_structure(1, 1), the default structure
DefaultStructure == <<1, 1, 1>>

(***************************************************************************)
(* filter_transitions                                                      *)
(***************************************************************************)
TrajectoryValues == {-1, 0, 1, 2}

ExampleTrajectory == <<0, 0, 5, 5, 5, 0, 0, -1, -1, 0>>

\* lines 202-206 without the zero fill of line 206
DiffsBad(trajectory) ==
    LET trajectory_float == astype_float(trajectory)
        trajectory_nan == putmask(trajectory_float,
                                  Array(Len(trajectory), LAMBDA i : trajectory_float[i].v < 0), NaN)
    IN  <<Float(0)>> \o np_diff(trajectory_nan)

\* lines 202-206: the first difference with negative frames masked to NaN
\* before differencing and zero-filled after
Diffs(trajectory) ==
    LET trajectory_float == astype_float(trajectory)
        trajectory_nan == putmask(trajectory_float,
                                  Array(Len(trajectory), LAMBDA i : trajectory_float[i].v < 0), NaN)
        diffs == <<Float(0)>> \o np_diff(trajectory_nan)
    IN  putmask(diffs, Array(Len(diffs), LAMBDA i : diffs[i].nan), Float(0))

\* np.logical_and(diffs != 0, trajectory > 0)
StartTransitionMask(trajectory) ==
    LET diffs == Diffs(trajectory)
    IN  Array(Len(trajectory), LAMBDA i : NonZero(diffs[i]) /\ trajectory[i] > 0)

\* np.logical_and(diffs != 0, trajectory == 0)
EndTransitionMask(trajectory) ==
    LET diffs == Diffs(trajectory)
    IN  Array(Len(trajectory), LAMBDA i : NonZero(diffs[i]) /\ trajectory[i] = 0)

\* lines 211-216 and 226-231: the transition frames, dilated backward
BeforeMask(transition_mask, before) ==
    IF before > 1
    THEN binary_dilation(transition_mask, <<1, 1, 0>>, before - 1)
    ELSE transition_mask

\* lines 218-224 and 233-239: the transition frames shifted left, dilated forward
AfterMask(transition_mask, after) ==
    LET shifted == binary_dilation(transition_mask, <<1, 0, 0>>, 1)
    IN  IF after > 1
        THEN binary_dilation(shifted, <<0, 1, 1>>, after - 1)
        ELSE shifted

\* lines 210-239: the union of the start/end expansion masks
ExpansionMask(trajectory, start_before, start_after, end_before, end_after) ==
    LET mask0 == np_full(Len(trajectory), FALSE)
        mask1 == IF start_before > 0
                 THEN np_logical_or(mask0, BeforeMask(StartTransitionMask(trajectory), start_before))
                 ELSE mask0
        mask2 == IF start_after > 0
                 THEN np_logical_or(mask1, AfterMask(StartTransitionMask(trajectory), start_after))
                 ELSE mask1
        mask3 == IF end_before > 0
                 THEN np_logical_or(mask2, BeforeMask(EndTransitionMask(trajectory), end_before))
                 ELSE mask2
    IN  IF end_after > 0
        THEN np_logical_or(mask3, AfterMask(EndTransitionMask(trajectory), end_after))
        ELSE mask3

\* lines 243-248
PauseMask(trajectory, pause_before, pause_after) ==
    LET m0 == Array(Len(trajectory), LAMBDA i : trajectory[i] = -1)
        m1 == IF pause_before > 0 THEN binary_dilation(m0, <<1, 1, 0>>, pause_before) ELSE m0
    IN  IF pause_after > 0 THEN binary_dilation(m1, <<0, 1, 1>>, pause_after) ELSE m1

\* lines 241 and 250 with the writes swapped
RelabelBad(filtered, mask, pause_mask) == putmask(putmask(filtered, pause_mask, -6), mask, -5)

\* lines 241 and 250: filtered[mask] = -5, then filtered[pause_mask] = -6
Relabel(filtered, mask, pause_mask) == putmask(putmask(filtered, mask, -5), pause_mask, -6)

\* The caller's array after the call and the returned array.
filter_transitions(trajectory, start_before, start_after, end_before, end_after, pause_before, pause_after) ==
    LET filtered == trajectory   \* trajectory.copy(): a new array
        mask == ExpansionMask(trajectory, start_before, start_after, end_before, end_after)
        pause_mask == PauseMask(trajectory, pause_before, pause_after)
    IN  [trajectory |-> trajectory,
         filtered   |-> Relabel(filtered, mask, pause_mask)]

\* the keyword arguments of filter_transitions
TransitionParamNames ==
    {"start_before", "start_after", "end_before", "end_after", "pause_before", "pause_after"}

\* every combination of settings 0 and 1, and every setting of up to two of the
\* parameters up to MaxExp
TransitionParams ==
    {p \in [TransitionParamNames -> 0..MaxExp] :
        \/ \A n \in TransitionParamNames : p[n] <= 1
        \/ Cardinality({n \in TransitionParamNames : p[n] > 0}) <= 2}

TransitionsInit ==
    /\ pc = "call"
    /\ \E trajectory \in (SeqsUpTo(TrajectoryValues, TransitionsMaxLen) \ {<<>>})
                             \cup {ExampleTrajectory},
          p \in TransitionParams :
            args = [fn |-> "filter_transitions", trajectory |-> trajectory,
                    start_before |-> p["start_before"], start_after |-> p["start_after"],
                    end_before |-> p["end_before"], end_after |-> p["end_after"],
                    pause_before |-> p["pause_before"], pause_after |-> p["pause_after"]]
    /\ locals = None
    /\ result = None

TransitionsCall ==
    /\ pc = "call"
    /\ args.fn = "filter_transitions"
    /\ result' = filter_transitions(args.trajectory, args.start_before, args.start_after,
                                    args.end_before, args.end_after,
                                    args.pause_before, args.pause_after)
    /\ pc' = "done"
    /\ UNCHANGED <<args, locals>>

TransitionsNext == TransitionsCall

SpecTransitions == TransitionsInit /\ [][TransitionsNext]_vars

TransitionsDone == pc = "done" /\ args.fn = "filter_transitions"

\* the frames of the returned array carrying a sentinel
Marked(filtered, sentinel) == {i \in Idx(filtered) : At(filtered, i) = sentinel}

\* C2: on [0,0,5,5,5,0,0,-1,-1,0] with start_before=1, end_after=1, pause_before=1
\* the output has -5 exactly at indices 1 and 5, -6 exactly at indices 6, 7, 8,
\* and the trajectory value everywhere else.
C2_ExampleOutput ==
    (/\ TransitionsDone
     /\ args.trajectory = ExampleTrajectory
     /\ args.start_before = 1 /\ args.end_after = 1 /\ args.pause_before = 1
     /\ args.start_after = 0 /\ args.end_before = 0 /\ args.pause_after = 0) =>
        /\ Marked(result.filtered, -5) = {1, 5}
        /\ Marked(result.filtered, -6) = {6, 7, 8}
        /\ \A i \in Idx(ExampleTrajectory) \ {1, 5, 6, 7, 8} :
              At(result.filtered, i) = At(ExampleTrajectory, i)

\* C8: the output has the input's length, the input array is left as it was, and
\* frame i is -6 if a frame p with trajectory[p] = -1 has
\* p - pause_before <= i <= p + pause_after, otherwise -5 if i is in the union of
\* the start/end expansion masks, otherwise trajectory[i].
C8_RelabelOnly ==
    TransitionsDone =>
        LET trajectory == args.trajectory
            mask == ExpansionMask(trajectory, args.start_before, args.start_after,
                                  args.end_before, args.end_after)
        IN  /\ Len(result.filtered) = Len(trajectory)
            /\ result.trajectory = trajectory
            /\ \A i \in Idx(trajectory) :
                  At(result.filtered, i) =
                      IF \E p \in Idx(trajectory) :
                            /\ At(trajectory, p) = -1
                            /\ p - args.pause_before <= i
                            /\ i <= p + args.pause_after
                      THEN -6
                      ELSE IF At(mask, i) THEN -5 ELSE At(trajectory, i)

\* a frame in a start expansion mask and in a dilated pause window, labelled -6
C8_Witness ==
    /\ TransitionsDone
    /\ args.trajectory = <<0, 1, 0, -1>>
    /\ args.end_before = 1 /\ args.pause_before = 1
    /\ At(ExpansionMask(args.trajectory, args.start_before, args.start_after,
                        args.end_before, args.end_after), 2)
    /\ result.filtered = <<0, 1, -6, -6>>

\* the start (sign = 1) or end (sign = 0) transition frames as the claims define
\* them: both neighbours defined, the value changes, and the new value is a
\* gesture (start) or idle (end)
DefinedTransitions(trajectory, start) ==
    {i \in Idx(trajectory) :
        /\ i >= 1
        /\ At(trajectory, i) >= 0
        /\ At(trajectory, i - 1) >= 0
        /\ At(trajectory, i) # At(trajectory, i - 1)
        /\ IF start THEN At(trajectory, i) > 0 ELSE At(trajectory, i) = 0}

\* the frames a call with only this one parameter set marks -5
MarkedBy(trajectory, name, value) ==
    LET p == [n \in TransitionParamNames |-> IF n = name THEN value ELSE 0]
    IN  Marked(filter_transitions(trajectory, p["start_before"], p["start_after"],
                                  p["end_before"], p["end_after"],
                                  p["pause_before"], p["pause_after"]).filtered, -5)

\* the call set this one parameter and left the others 0
OnlySet(name) ==
    /\ args[name] >= 1
    /\ \A n \in TransitionParamNames \ {name} : args[n] = 0

\* one side of C9: around the single transition a of its kind, with room for the
\* expansions on both sides of a, the -5 frames of `before` alone and of `after`
\* alone are disjoint, no `before` frame is after a and no `after` frame before a
OwnSides(start, before_name, after_name) ==
    LET trajectory == args.trajectory
        marked == Marked(result.filtered, -5)
    IN  \A a \in DefinedTransitions(trajectory, start) :
            (/\ DefinedTransitions(trajectory, start) = {a}
             /\ \A i \in Idx(trajectory) : At(trajectory, i) >= 0) =>
                /\ (OnlySet(before_name) /\ a - args[before_name] >= 0) =>
                      /\ \A i \in marked : i <= a
                      /\ \A m \in 1..MaxExp : a + m <= Len(trajectory) - 1 =>
                            marked \cap MarkedBy(trajectory, after_name, m) = {}
                /\ (OnlySet(after_name) /\ a + args[after_name] <= Len(trajectory) - 1) =>
                      /\ \A i \in marked : i >= a
                      /\ \A k \in 1..MaxExp : a - k >= 0 =>
                            marked \cap MarkedBy(trajectory, before_name, k) = {}

\* C9: for a trajectory with a single start transition at frame a far from the
\* borders and no pause frames, the -5 frames of start_before=k alone and of
\* start_after=m alone are disjoint, the former holding no frame after a and the
\* latter none before a; the same for end_before/end_after at an end transition.
C9_OwnSides ==
    TransitionsDone =>
        /\ OwnSides(TRUE, "start_before", "start_after")
        /\ OwnSides(FALSE, "end_before", "end_after")

\* C10: the start/end transition frames are exactly the frames i >= 1 with
\* trajectory[i] >= 0, trajectory[i-1] >= 0 and trajectory[i] # trajectory[i-1]
\* (start if trajectory[i] > 0, end if it is 0); every -5 frame of the output lies
\* within the expansion reach of such a frame, so a change next to a negative
\* frame yields no -5 for any setting.
C10_NoUndefinedTransition ==
    TransitionsDone =>
        LET trajectory == args.trajectory
            transitions == DefinedTransitions(trajectory, TRUE)
                               \cup DefinedTransitions(trajectory, FALSE)
        IN  /\ TrueAt(StartTransitionMask(trajectory)) = DefinedTransitions(trajectory, TRUE)
            /\ TrueAt(EndTransitionMask(trajectory)) = DefinedTransitions(trajectory, FALSE)
            /\ \A i \in Marked(result.filtered, -5) :
                  \E a \in transitions : a - MaxExp <= i /\ i <= a + MaxExp
            /\ transitions = {} => Marked(result.filtered, -5) = {}

\* a pause followed directly by a gesture, with every start/end parameter set:
\* no frame is marked -5
C10_Witness ==
    /\ TransitionsDone
    /\ args.trajectory = <<0, -1, 2, 2>>
    /\ args.start_before = 1 /\ args.start_after = 1
    /\ args.end_before = 1 /\ args.end_after = 1
    /\ Marked(result.filtered, -5) = {}

(***************************************************************************)
(* filter_recognition                                                      *)
(***************************************************************************)
LabelsMaxLen == 3

RecognizedValues == {0, 1, 2}

ReferenceValues == {0, 1}

\* the gesture id lists passed by the caller
GestureLists == {<<>>, <<0>>, <<1>>, <<2>>, <<1, 2>>, <<2, 1>>}

\* recognized and trajectory of one length
LabelPairs(recognized_values, trajectory_values, n) ==
    UNION {[1..k -> recognized_values] \X [1..k -> trajectory_values] : k \in 1..n}

\* lines 318-323 with the two margins on the wrong sides
ToleranceMaskBad(trajectory, g, before, after) ==
    LET m0 == Array(Len(trajectory), LAMBDA i : trajectory[i] = g)
        m1 == IF before > 0 THEN binary_dilation(m0, <<0, 1, 1>>, before) ELSE m0
    IN  IF after > 0 THEN binary_dilation(m1, <<1, 1, 0>>, after) ELSE m1

\* lines 318-323 (and 305-309): the frames holding g, dilated backward by
\* `before` passes and forward by `after` passes
ToleranceMask(trajectory, g, before, after) ==
    LET m0 == Array(Len(trajectory), LAMBDA i : trajectory[i] = g)
        m1 == IF before > 0 THEN binary_dilation(m0, <<1, 1, 0>>, before) ELSE m0
    IN  IF after > 0 THEN binary_dilation(m1, <<0, 1, 1>>, after) ELSE m1

\* np.logical_and of two 1-D arrays: arrays of one length element by element, an
\* array of length 1 stretched to the other's length, any other pair of lengths
\* refused; [value |-> array] or the error raised
BroadcastAnd(a, b) ==
    IF Len(a) = Len(b) THEN [value |-> np_logical_and(a, b)]
    ELSE IF Len(a) = 1 THEN [value |-> Array(Len(b), LAMBDA i : a[1] /\ b[i])]
    ELSE IF Len(b) = 1 THEN [value |-> Array(Len(a), LAMBDA i : a[i] /\ b[1])]
    ELSE Raised("ValueError")

\* line 325: recognized_filtered[(recognized == g) & ~trajectory_mask] = -2; a
\* boolean index of another length than the indexed array is an IndexError
RecognitionStep(recognized_filtered, recognized, trajectory, g, margin_l, margin_r) ==
    LET trajectory_mask == ToleranceMask(trajectory, g, margin_l, margin_r)
        claimed == Array(Len(recognized), LAMBDA i : recognized[i] = g)
        mask == BroadcastAnd(claimed, np_logical_not(trajectory_mask))
    IN  IF IsError(mask) THEN mask
        ELSE IF Len(mask.value) # Len(recognized_filtered) THEN Raised("IndexError")
        ELSE [value |-> putmask(recognized_filtered, mask.value, -2)]

\* lines 317-325: for g in gestures, from element `next` of the list on; an
\* error ends the loop
RECURSIVE RecognitionLoop(_, _, _, _, _, _, _)
RecognitionLoop(recognized_filtered, recognized, trajectory, gestures, next, margin_l, margin_r) ==
    IF IsError(recognized_filtered) \/ next > Len(gestures) THEN recognized_filtered
    ELSE RecognitionLoop(
             RecognitionStep(recognized_filtered.value, recognized, trajectory,
                             gestures[next], margin_l, margin_r),
             recognized, trajectory, gestures, next + 1, margin_l, margin_r)

filter_recognition(recognized, trajectory, gestures, margin_l, margin_r) ==
    LET recognized_filtered == [value |-> recognized]   \* recognized.copy()
        out == RecognitionLoop(recognized_filtered, recognized, trajectory, gestures, 1,
                               margin_l, margin_r)
    IN  IF IsError(out) THEN out ELSE [recognized_filtered |-> out.value]

RecognitionInit ==
    /\ pc = "call"
    /\ \E pair \in LabelPairs(RecognizedValues, ReferenceValues, LabelsMaxLen),
          gestures \in GestureLists, margin_l \in 0..MaxExp, margin_r \in 0..MaxExp :
            args = [fn |-> "filter_recognition", recognized |-> pair[1],
                    trajectory |-> pair[2], gestures |-> gestures,
                    margin_l |-> margin_l, margin_r |-> margin_r]
    /\ locals = None
    /\ result = None

RecognitionCall ==
    /\ pc = "call"
    /\ args.fn = "filter_recognition"
    /\ result' = filter_recognition(args.recognized, args.trajectory, args.gestures,
                                    args.margin_l, args.margin_r)
    /\ pc' = "done"
    /\ UNCHANGED <<args, locals>>

RecognitionNext == RecognitionCall

SpecRecognition == RecognitionInit /\ [][RecognitionNext]_vars

RecognitionDone == pc = "done" /\ args.fn = "filter_recognition"

\* the elements of a list
Elements(list) == {list[k] : k \in 1..Len(list)}

\* C3: frame i of the output is -2 if recognized[i] is an id g of the gestures
\* list and trajectory holds no g at any p with i - margin_r <= p <= i + margin_l;
\* otherwise it is recognized[i].  Frames whose value is not in the list are
\* never changed.  (The order of the list does not enter the right-hand side.)
C3_RecognitionContract ==
    RecognitionDone =>
        /\ Len(result.recognized_filtered) = Len(args.recognized)
        /\ \A i \in Idx(args.recognized) :
              LET g == At(args.recognized, i)
              IN  At(result.recognized_filtered, i) =
                      IF /\ g \in Elements(args.gestures)
                         /\ ~\E p \in Idx(args.trajectory) :
                                /\ At(args.trajectory, p) = g
                                /\ i - args.margin_r <= p
                                /\ p <= i + args.margin_l
                      THEN -2
                      ELSE g

\* two ids in the list, one claimed outside its window and relabelled, one
\* claimed inside its window (by the backward margin) and kept, and a frame
\* whose value is not listed
C3_Witness ==
    /\ RecognitionDone
    /\ args.gestures = <<2, 1>>
    /\ args.recognized = <<1, 2, 0>>
    /\ args.trajectory = <<0, 1, 0>>
    /\ args.margin_l = 1 /\ args.margin_r = 0
    /\ result.recognized_filtered = <<1, -2, 0>>

(***************************************************************************)
(* vgg_filter                                                              *)
(***************************************************************************)
\* the median filter kernels explored (medfilt refuses an even kernel)
Kernels == {1, 3}

\* the element of rank r (from 0) of the sorted elements of a
Ranked(a, r) ==
    CHOOSE v \in Elements(a) :
        /\ Cardinality({k \in 1..Len(a) : a[k] < v}) <= r
        /\ Cardinality({k \in 1..Len(a) : a[k] <= v}) > r

\* scipy.signal.medfilt(volume, kernel_size): the median of the kernel_size
\* elements around each element, the array padded with zeros; [value |-> array]
\* or the error raised
medfilt(volume, kernel_size) ==
    IF kernel_size % 2 # 1 THEN Raised("ValueError")
    ELSE LET half == kernel_size \div 2
         IN  [value |->
                 Array(Len(volume), LAMBDA i :
                     Ranked(Array(kernel_size, LAMBDA d :
                                IF (i + d - 1 - half) \in 1..Len(volume)
                                THEN volume[i + d - 1 - half] ELSE 0),
                            half))]

\* np.unique(a): the sorted distinct elements
RECURSIVE SortedSet(_)
SortedSet(S) ==
    IF S = {} THEN <<>>
    ELSE LET least == CHOOSE v \in S : \A w \in S : v <= w
         IN  <<least>> \o SortedSet(S \ {least})

np_unique(a) == SortedSet(Elements(a))

\* line 310: np.putmask(a, mask, value), the mask as computed (or the error of
\* computing it); a mask of another size than a is a ValueError
MaskedPut(a, mask, value) ==
    IF IsError(mask) THEN mask
    ELSE IF Len(mask.value) # Len(a) THEN Raised("ValueError")
    ELSE [value |-> putmask(a, mask.value, value)]

\* lines 304-310 without the test of line 304
VggStepBad(recognized_filtered, trajectory, g, tolerance_early, tolerance_late) ==
    LET g_mask == ToleranceMask(trajectory, g, tolerance_early, tolerance_late)
        claimed == Array(Len(recognized_filtered), LAMBDA i : recognized_filtered[i] = g)
    IN  MaskedPut(recognized_filtered, BroadcastAnd(claimed, np_logical_not(g_mask)), -1)

\* lines 304-310: one iteration of the loop over the trajectory's ids
VggStep(recognized_filtered, trajectory, g, tolerance_early, tolerance_late) ==
    IF g # 0
    THEN LET g_mask == ToleranceMask(trajectory, g, tolerance_early, tolerance_late)
             claimed == Array(Len(recognized_filtered), LAMBDA i : recognized_filtered[i] = g)
         IN  MaskedPut(recognized_filtered, BroadcastAnd(claimed, np_logical_not(g_mask)), -1)
    ELSE [value |-> recognized_filtered]

\* lines 303-310: for g in gestures, from element `next` on; an error ends the
\* loop
RECURSIVE VggLoop(_, _, _, _, _, _)
VggLoop(recognized_filtered, trajectory, gestures, next, tolerance_early, tolerance_late) ==
    IF IsError(recognized_filtered) \/ next > Len(gestures) THEN recognized_filtered
    ELSE VggLoop(VggStep(recognized_filtered.value, trajectory, gestures[next],
                         tolerance_early, tolerance_late),
                 trajectory, gestures, next + 1, tolerance_early, tolerance_late)

vgg_filter(recognized, trajectory, recognition_median_filter, recognition_tolerance_early, recognition_tolerance_late) ==
    LET recognized_filtered == medfilt(recognized, recognition_median_filter)
        out == VggLoop(recognized_filtered, trajectory, np_unique(trajectory), 1,
                       recognition_tolerance_early, recognition_tolerance_late)
    IN  IF IsError(out) THEN out ELSE [recognized_filtered |-> out.value]

VggInit ==
    /\ pc = "call"
    /\ \E pair \in LabelPairs(RecognizedValues, ReferenceValues \cup {-1}, LabelsMaxLen),
          kernel \in Kernels, early \in 0..MaxExp, late \in 0..MaxExp :
            args = [fn |-> "vgg_filter", recognized |-> pair[1], trajectory |-> pair[2],
                    recognition_median_filter |-> kernel,
                    recognition_tolerance_early |-> early,
                    recognition_tolerance_late |-> late]
    /\ locals = None
    /\ result = None

VggCall ==
    /\ pc = "call"
    /\ args.fn = "vgg_filter"
    /\ result' = vgg_filter(args.recognized, args.trajectory,
                            args.recognition_median_filter,
                            args.recognition_tolerance_early,
                            args.recognition_tolerance_late)
    /\ pc' = "done"
    /\ UNCHANGED <<args, locals>>

VggNext == VggCall

SpecVgg == VggInit /\ [][VggNext]_vars

VggDone == pc = "done" /\ args.fn = "vgg_filter"

\* C4: with m the zero-padded median filter of recognized (odd kernel), frame i
\* of the output is -1 if m[i] is a nonzero value g that occurs in trajectory and
\* trajectory holds no g at any p with i - tolerance_late <= p <= i + tolerance_early;
\* otherwise it is m[i].  A smoothed value that never occurs in trajectory is
\* passed through.  (The processing order does not enter the right-hand side.)
C4_VggContract ==
    VggDone =>
        LET m == medfilt(args.recognized, args.recognition_median_filter).value
        IN  /\ ~IsError(result)
            /\ Len(result.recognized_filtered) = Len(args.recognized)
            /\ \A i \in Idx(args.recognized) :
                  LET g == At(m, i)
                  IN  At(result.recognized_filtered, i) =
                          IF /\ g # 0
                             /\ g \in Elements(args.trajectory)
                             /\ ~\E p \in Idx(args.trajectory) :
                                    /\ At(args.trajectory, p) = g
                                    /\ i - args.recognition_tolerance_late <= p
                                    /\ p <= i + args.recognition_tolerance_early
                          THEN -1
                          ELSE g

\* the kernel smooths the 2 away; the frame claiming 1 just before the gesture
\* is kept by the early tolerance, the one claiming it a frame late is rejected
C4_Witness ==
    /\ VggDone
    /\ args.recognition_median_filter = 3
    /\ args.recognition_tolerance_early = 1 /\ args.recognition_tolerance_late = 0
    /\ args.recognized = <<1, 1, 2>>
    /\ args.trajectory = <<0, 1, 0>>
    /\ result.recognized_filtered = <<1, 1, -1>>

(***************************************************************************)
(* filter_smart                                                            *)
(***************************************************************************)
SmartMaxLen == 6

SmartRecognizedValues == {-1, 0, 1}

\* the trajectories explored: idle throughout, or gesture 1 at a single frame
SmartTrajectories(n) ==
    {np_full(n, 0)} \cup {Array(n, LAMBDA i : IF i = j THEN 1 ELSE 0) : j \in 1..n}

MinIdlePeriods == {2, 3, 4}

Tolerances == {0, 1}

\* Python's a[from:to] for 0 <= from, 0 <= to
Slice(a, from, to) ==
    LET hi == IF to < Len(a) THEN to ELSE Len(a)
    IN  IF from >= hi THEN <<>> ELSE SubSeq(a, from + 1, hi)

\* np.diff on a boolean array: not_equal of the neighbours
np_diff_bool(a) == Array(Len(a) - 1, LAMBDA i : a[i + 1] # a[i])

\* np.flatnonzero: the Python indices of the True elements, ascending
np_flatnonzero(mask) == SortedSet(TrueAt(mask))

\* np.searchsorted(a, v): the number of elements of the sorted a below v
np_searchsorted(a, v) == Cardinality({k \in 1..Len(a) : a[k] < v})

\* twice np.median(a) (the mean of the two middle elements when len(a) is even),
\* or NaN for an empty a
Median2(a) ==
    IF Len(a) = 0 THEN NaN
    ELSE IF Len(a) % 2 = 1 THEN Float(2 * Ranked(a, Len(a) \div 2))
    ELSE Float(Ranked(a, Len(a) \div 2 - 1) + Ranked(a, Len(a) \div 2))

\* `gesture in a` for the float gesture whose double is gesture2
Contains(a, gesture2) == ~gesture2.nan /\ \E k \in 1..Len(a) : 2 * a[k] = gesture2.v

\* lines 281-285: the end of the interval starting at s
IntervalEndBad(ends, s, trajectory_length) ==
    LET t_idx == np_searchsorted(ends, s + 1)
    IN  IF t_idx < Len(ends) THEN At(ends, t_idx) ELSE trajectory_length

IntervalEnd(ends, s, trajectory_length) ==
    LET t_idx == np_searchsorted(ends, s + 1)
    IN  IF t_idx < Len(ends) THEN At(ends, t_idx) ELSE trajectory_length - 1

\* lines 281-291: the interval of start s, its gesture and the test of line 291
Interval(recognized, trajectory, ends, s, tolerance_backward, tolerance_forward) ==
    LET trajectory_length == Len(recognized)
        t == IntervalEnd(ends, s, trajectory_length)
        trajectory_s == IF s - tolerance_backward > 0 THEN s - tolerance_backward ELSE 0
        trajectory_t == IF t + tolerance_forward < trajectory_length - 1
                        THEN t + tolerance_forward ELSE trajectory_length - 1
        gesture2 == Median2(Slice(recognized, s, t))
    IN  [s |-> s, t |-> t, gesture2 |-> gesture2,
         accepted |-> Contains(Slice(trajectory, trajectory_s, trajectory_t), gesture2)]

\* line 292: output[s:t] = gesture
Assign(output, s, t, gesture2) ==
    Array(Len(output), LAMBDA i :
        IF s <= i - 1 /\ i - 1 < t THEN gesture2.v \div 2 ELSE output[i])

\* lines 280-292: for s in starts, from element `next` on
RECURSIVE SmartLoop(_, _, _)
SmartLoop(output, intervals, next) ==
    IF next > Len(intervals) THEN output
    ELSE LET iv == intervals[next]
         IN  SmartLoop(IF iv.accepted THEN Assign(output, iv.s, iv.t, iv.gesture2) ELSE output,
                       intervals, next + 1)

\* The returned array, with the local variables the claims speak of.
filter_smart(recognized, trajectory, recognition_median_filter, recognition_tolerance_backward, recognition_tolerance_forward, min_idle_period) ==
    LET filtered == medfilt(recognized, recognition_median_filter)
    IN  IF IsError(filtered) THEN filtered
        ELSE
        LET recognized_median == filtered.value
            non_positive == Array(Len(recognized_median), LAMBDA i : recognized_median[i] <= 0)
            eroded == binary_erosion(non_positive, DefaultStructure, min_idle_period \div 2)
            idle_mask == binary_dilation(eroded, DefaultStructure, min_idle_period \div 2)
            transitions == <<FALSE>> \o np_diff_bool(idle_mask)
            starts == np_flatnonzero(
                          Array(Len(recognized), LAMBDA i : transitions[i] /\ recognized_median[i] # 0))
            ends == np_flatnonzero(
                        Array(Len(recognized), LAMBDA i : transitions[i] /\ recognized_median[i] = 0))
            output0 == putmask(np_full(Len(recognized), -4), idle_mask, 0)
            output1 == Array(Len(recognized), LAMBDA i :
                           IF recognized[i] < 0 THEN recognized[i] ELSE output0[i])
            intervals == Array(Len(starts), LAMBDA n :
                             Interval(recognized, trajectory, ends, starts[n],
                                      recognition_tolerance_backward,
                                      recognition_tolerance_forward))
        IN  [recognized_median |-> recognized_median,
             idle_mask |-> idle_mask,
             starts |-> starts,
             ends |-> ends,
             intervals |-> intervals,
             output |-> SmartLoop(output1, intervals, 1)]

SmartInit ==
    /\ pc = "call"
    /\ \E n \in 1..SmartMaxLen :
       \E recognized \in [1..n -> SmartRecognizedValues],
          trajectory \in SmartTrajectories(n),
          kernel \in Kernels, backward \in Tolerances, forward \in Tolerances,
          min_idle_period \in MinIdlePeriods :
            args = [fn |-> "filter_smart", recognized |-> recognized,
                    trajectory |-> trajectory,
                    recognition_median_filter |-> kernel,
                    recognition_tolerance_backward |-> backward,
                    recognition_tolerance_forward |-> forward,
                    min_idle_period |-> min_idle_period]
    /\ locals = None
    /\ result = None

SmartCall ==
    /\ pc = "call"
    /\ args.fn = "filter_smart"
    /\ LET r == filter_smart(args.recognized, args.trajectory,
                             args.recognition_median_filter,
                             args.recognition_tolerance_backward,
                             args.recognition_tolerance_forward,
                             args.min_idle_period)
       IN  /\ locals' = r
           /\ result' = IF IsError(r) THEN r ELSE [output |-> r.output]
    /\ pc' = "done"
    /\ UNCHANGED args

SmartNext == SmartCall

SpecSmart == SmartInit /\ [][SmartNext]_vars

SmartDone == pc = "done" /\ args.fn = "filter_smart"

\* C5: an interval [s, t) with median g is accepted exactly when g occurs in
\* trajectory at an index j with s - tolerance_backward <= j < t + tolerance_forward
\* and 0 <= j < N, the last index N-1 included when t + tolerance_forward >= N.
C5_AcceptanceWindow ==
    SmartDone =>
        \A n \in 1..Len(locals.intervals) :
            LET iv == locals.intervals[n]
            IN  iv.accepted <=>
                    /\ ~iv.gesture2.nan
                    /\ \E j \in Idx(args.trajectory) :
                          /\ iv.s - args.recognition_tolerance_backward <= j
                          /\ j < iv.t + args.recognition_tolerance_forward
                          /\ 2 * At(args.trajectory, j) = iv.gesture2.v

\* C6: every frame with recognized[i] < 0 has output[i] = recognized[i], inside
\* an accepted interval and inside the idle mask too.
C6_NegativePassThrough ==
    SmartDone =>
        \A i \in Idx(args.recognized) :
            At(args.recognized, i) < 0 => At(result.output, i) = At(args.recognized, i)

\* the first idle-mask frame after s, or N when no idle period follows
NextIdle(idle_mask, s) ==
    LET later == {j \in TrueAt(idle_mask) : j > s}
    IN  IF later = {} THEN Len(idle_mask)
        ELSE CHOOSE j \in later : \A k \in later : j <= k

\* the frames from the start of an accepted interval up to the next idle frame
\* or through the last frame
AcceptedFrames(intervals, idle_mask, n) ==
    IF intervals[n].accepted
    THEN intervals[n].s .. (NextIdle(idle_mask, intervals[n].s) - 1)
    ELSE {}

\* C7: for an accepted interval starting at s, every frame with non-negative
\* recognized value from s up to the next idle-mask frame, or through frame N-1
\* when no idle period follows, carries the interval's gesture id; every
\* idle-mask frame with non-negative recognized value is 0; every remaining
\* frame with non-negative recognized value is -4.
C7_CompleteLabelling ==
    SmartDone =>
        LET covered == UNION {AcceptedFrames(locals.intervals, locals.idle_mask, n) :
                                 n \in 1..Len(locals.intervals)}
        IN  /\ \A n \in 1..Len(locals.intervals) :
                  \A i \in AcceptedFrames(locals.intervals, locals.idle_mask, n) :
                      At(args.recognized, i) >= 0 =>
                          2 * At(result.output, i) = locals.intervals[n].gesture2.v
            /\ \A i \in Idx(args.recognized) :
                  At(args.recognized, i) >= 0 =>
                      /\ At(locals.idle_mask, i) => At(result.output, i) = 0
                      /\ (~At(locals.idle_mask, i) /\ i \notin covered) =>
                             At(result.output, i) = -4

(***************************************************************************)
(* filter_smart: the idle mask alone                                       *)
(***************************************************************************)
IdleMaxLen == 6
MaxIdlePeriod == 5

\* calls that differ in recognized, the kernel and min_idle_period only
IdleInit ==
    /\ pc = "call"
    /\ \E n \in 1..IdleMaxLen :
       \E recognized \in [1..n -> SmartRecognizedValues],
          kernel \in Kernels, min_idle_period \in 2..MaxIdlePeriod :
            args = [fn |-> "filter_smart", recognized |-> recognized,
                    trajectory |-> np_full(n, 0),
                    recognition_median_filter |-> kernel,
                    recognition_tolerance_backward |-> 0,
                    recognition_tolerance_forward |-> 0,
                    min_idle_period |-> min_idle_period]
    /\ locals = None
    /\ result = None

SpecIdle == IdleInit /\ [][SmartNext]_vars

\* the maximal runs <<first, last>> of frames whose smoothed value is <= 0
IdleRuns(recognized_median) ==
    {run \in Idx(recognized_median) \X Idx(recognized_median) :
        /\ run[1] <= run[2]
        /\ \A i \in run[1]..run[2] : At(recognized_median, i) <= 0
        /\ run[1] = 0 \/ At(recognized_median, run[1] - 1) > 0
        /\ run[2] = Len(recognized_median) - 1 \/ At(recognized_median, run[2] + 1) > 0}

\* every run of at least `threshold` frames lies inside the idle mask, every
\* shorter run outside it, and no frame with a positive smoothed value is in it
IdleThreshold(threshold) ==
    /\ \A run \in IdleRuns(locals.recognized_median) :
          IF run[2] - run[1] + 1 >= threshold
          THEN \A i \in run[1]..run[2] : At(locals.idle_mask, i)
          ELSE \A i \in run[1]..run[2] : ~At(locals.idle_mask, i)
    /\ \A i \in Idx(locals.idle_mask) :
          At(locals.idle_mask, i) => At(locals.recognized_median, i) <= 0

\* C15 as stated: for every min_idle_period >= 2, odd or even, a maximal run of
\* smoothed values <= 0 (runs touching either end included) is inside the idle
\* mask if its length is >= min_idle_period and outside it if shorter; the mask
\* holds no frame whose smoothed value is > 0.
C15_IdleThresholdAsStated ==
    SmartDone => IdleThreshold(args.min_idle_period)

\* C15 amended: the threshold is 2 * floor(min_idle_period / 2) + 1 frames, which
\* is min_idle_period when it is odd and min_idle_period + 1 when it is even.
C15_IdleThreshold ==
    SmartDone => IdleThreshold(2 * (args.min_idle_period \div 2) + 1)

\* an even period: a run of exactly min_idle_period frames, left out of the mask
C15_Witness ==
    /\ SmartDone
    /\ args.min_idle_period = 4
    /\ args.recognition_median_filter = 1
    /\ args.recognized = <<1, 0, 0, 0, 0, 1>>
    /\ TrueAt(locals.idle_mask) = {}

(***************************************************************************)
(* The label filters called with recognized and trajectory of two lengths  *)
(***************************************************************************)
ShapeMaxLen == 3

\* recognized and trajectory of different lengths
ShapePairs ==
    UNION {[1..r -> RecognizedValues] \X [1..t -> ReferenceValues] :
              <<r, t>> \in {lens \in (1..ShapeMaxLen) \X (1..ShapeMaxLen) : lens[1] # lens[2]}}

ShapeInit ==
    /\ pc = "call"
    /\ \E pair \in ShapePairs :
          \/ \E gestures \in GestureLists, margin_l \in Tolerances, margin_r \in Tolerances :
                args = [fn |-> "filter_recognition", recognized |-> pair[1],
                        trajectory |-> pair[2], gestures |-> gestures,
                        margin_l |-> margin_l, margin_r |-> margin_r]
          \/ \E kernel \in Kernels, early \in Tolerances, late \in Tolerances :
                args = [fn |-> "vgg_filter", recognized |-> pair[1], trajectory |-> pair[2],
                        recognition_median_filter |-> kernel,
                        recognition_tolerance_early |-> early,
                        recognition_tolerance_late |-> late]
          \/ \E kernel \in Kernels, backward \in Tolerances, forward \in Tolerances,
                min_idle_period \in MinIdlePeriods :
                args = [fn |-> "filter_smart", recognized |-> pair[1],
                        trajectory |-> pair[2],
                        recognition_median_filter |-> kernel,
                        recognition_tolerance_backward |-> backward,
                        recognition_tolerance_forward |-> forward,
                        min_idle_period |-> min_idle_period]
    /\ locals = None
    /\ result = None

ShapeNext == RecognitionCall \/ VggCall \/ SmartCall

SpecShape == ShapeInit /\ [][ShapeNext]_vars

\* C13: filter_smart, vgg_filter and filter_recognition, called with a
\* recognized and a trajectory sequence of different lengths, fail with an error
\* and return no label sequence, whatever the lengths and the values
\* (trajectories of length 1, all-zero trajectories and an empty gesture id list
\* included).
C13_ShapeMismatchFatal ==
    (pc = "done" /\ Len(args.recognized) # Len(args.trajectory)) => IsError(result)

(***************************************************************************)
(* filtering.multi_notch                                                   *)
(*                                                                         *)
(* Time is counted in sample periods (1 / 5124.07211903 s) and frequency   *)
(* in steps of 0.01 Hz, the half-width of the bounds given to minimize.    *)
(* The sine and the cosine are integer tables, and minimize returns one of *)
(* the points FitOutcomes allows inside the bounds: which one the          *)
(* optimiser reaches is not modelled.                                      *)
(***************************************************************************)
NotchMaxLen == 3

\* the lists of target frequencies (50 Hz and 100 Hz)
NotchFrequencyLists == {<<>>, <<5000>>, <<5000, 10000>>}

\* the first timestamp of the series index
IndexStarts == {0, 2}

SinTable(f, t) == ((f * t) % 5) - 2

CosTable(f, t) == ((f * t + 1) % 3) - 1

\* line 18: x[0] * sin(2 pi f t) + x[1] * cos(2 pi f t) at one instant t
harmonic_x_f(x, t, f) == x[1] * SinTable(f, t) + x[2] * CosTable(f, t)

\* line 54: the points minimize may return from the start point x_est with the
\* frequency kept within [freq - .01, freq + .01]
FitOutcomes(x_est, freq) ==
    {<<x_est[1] + 1, x_est[2], freq - 1>>, <<x_est[1], x_est[2] + 1, freq + 1>>}

\* line 45 without the + 1
WindowStartsBad(indexes) ==
    <<0>> \o indexes

\* line 45: indexes = np.append([0], indexes + 1)
WindowStarts(indexes) ==
    <<0>> \o Array(Len(indexes), LAMBDA k : indexes[k] + 1)

\* lines 55 and 58 without line 58
ReseedBad(x, freq) ==
    x

\* lines 55 and 58: x_est = res.x; x_est[2] = freq
Reseed(x, freq) ==
    <<x[1], x[2], freq>>

\* line 57: vec[start:start + len(val)] += harmonic_x_f(x_est, t, x_est[2]) with
\* t = np.arange(len(val)) + t0
Accumulate(vec, start, val, x_est, t0) ==
    Array(Len(vec), LAMBDA n :
        IF start <= n - 1 /\ n - 1 < start + Len(val)
        THEN vec[n] + harmonic_x_f(x_est, (n - 1 - start) + t0, x_est[3])
        ELSE vec[n])

NotchInit ==
    /\ pc = "call"
    /\ \E values \in SeqsUpTo(SampleValues, NotchMaxLen), start \in IndexStarts,
          window \in 0..MaxWindow, notch_frequencies \in NotchFrequencyLists :
            args = [fn |-> "multi_notch",
                    series |-> [values |-> values,
                                index |-> Array(Len(values), LAMBDA n : start + n - 1)],
                    window |-> window,
                    notch_frequencies |-> notch_frequencies]
    /\ locals = None
    /\ result = None

\* line 44: moving_window_stride(series.values, np.int_(window), np.int_(window));
\* a numpy integer divided by a zero window is inf (nan for an empty series), which
\* math.floor refuses
NotchWindows(values, window) ==
    IF window = 0
    THEN Raised(IF Len(values) = 0 THEN "ValueError" ELSE "OverflowError")
    ELSE moving_window_stride(values, window, window)

\* lines 44-47: the windows, their first indices and the zeroed estimate
NotchCall ==
    /\ pc = "call"
    /\ args.fn = "multi_notch"
    /\ LET strided == NotchWindows(args.series.values, args.window)
       IN  IF IsError(strided)
           THEN /\ result' = strided
                /\ pc' = "done"
                /\ UNCHANGED locals
           ELSE /\ locals' = [windows_strided |-> strided.strided,
                              indexes |-> WindowStarts(strided.index),
                              vec |-> np_full(Len(args.series.values), 0),
                              frequency |-> 0, x_est |-> <<>>, i |-> 0,
                              fits |-> <<>>]
                /\ pc' = "for freq"
                /\ UNCHANGED result
    /\ UNCHANGED args

\* lines 48-50: the next target frequency, its start point and i = 0
NotchFrequency ==
    /\ pc = "for freq"
    /\ locals.frequency < Len(args.notch_frequencies)
    /\ locals' = [locals EXCEPT !.frequency = @ + 1,
                                !.x_est = <<0, 0, args.notch_frequencies[locals.frequency + 1]>>,
                                !.i = 0]
    /\ pc' = "for val"
    /\ UNCHANGED <<args, result>>

\* lines 51-59: the fit of one window; fits keeps, per fit, the frequency and
\* the window it was made for, the start point given and the point returned
NotchFit ==
    /\ pc = "for val"
    /\ locals.i < Len(locals.windows_strided)
    /\ LET freq == args.notch_frequencies[locals.frequency]
           val == locals.windows_strided[locals.i + 1]
           t0 == At(args.series.index, At(locals.indexes, locals.i))
       IN  \E res \in FitOutcomes(locals.x_est, freq) :
              locals' = [locals EXCEPT
                  !.vec = Accumulate(@, At(locals.indexes, locals.i), val, res, t0),
                  !.x_est = Reseed(res, freq),
                  !.i = @ + 1,
                  !.fits = Append(@, [frequency |-> locals.frequency, i |-> locals.i,
                                      x0 |-> locals.x_est, x |-> res])]
    /\ UNCHANGED <<pc, args, result>>

\* line 51: the windows are exhausted
NotchWindowsDone ==
    /\ pc = "for val"
    /\ locals.i = Len(locals.windows_strided)
    /\ pc' = "for freq"
    /\ UNCHANGED <<args, locals, result>>

\* line 60: return vec
NotchReturn ==
    /\ pc = "for freq"
    /\ locals.frequency = Len(args.notch_frequencies)
    /\ result' = [vec |-> locals.vec]
    /\ pc' = "done"
    /\ UNCHANGED <<args, locals>>

NotchNext == NotchCall \/ NotchFrequency \/ NotchFit \/ NotchWindowsDone \/ NotchReturn

SpecNotch == NotchInit /\ [][NotchNext]_vars

NotchRunning == args.fn = "multi_notch" /\ pc # "call" /\ ~IsError(result)

NotchDone == args.fn = "multi_notch" /\ pc = "done" /\ ~IsError(result)

\* C11: for every target frequency f and every window index i, in the order
\* processed, minimize starts from (0, 0, f) when i = 0 and from (x0, x1, f) when
\* i > 0, with (x0, x1) the amplitudes fitted for window i - 1 of the same f: the
\* fitted frequency is never carried over, and no fit of one target frequency
\* seeds a window of another.
C11_SeedingOrder ==
    NotchRunning =>
        \A k \in 1..Len(locals.fits) :
            LET fit == locals.fits[k]
                f == args.notch_frequencies[fit.frequency]
            IN  IF fit.i = 0 THEN fit.x0 = <<0, 0, f>>
                ELSE /\ locals.fits[k - 1].frequency = fit.frequency
                     /\ locals.fits[k - 1].i = fit.i - 1
                     /\ fit.x0 = <<locals.fits[k - 1].x[1], locals.fits[k - 1].x[2], f>>

\* two target frequencies, two windows each; the first window of the second
\* frequency follows fits with non-zero amplitudes and off-nominal frequencies
C11_Witness ==
    /\ NotchDone
    /\ Len(args.notch_frequencies) = 2
    /\ Len(locals.fits) = 4
    /\ locals.fits[2].i = 1 /\ locals.fits[2].x0[3] # locals.fits[1].x[3]
    /\ locals.fits[3].i = 0 /\ locals.fits[3].frequency = 2
    /\ locals.fits[4].x0 = <<locals.fits[3].x[1], locals.fits[3].x[2], 10000>>

\* the harmonics sample n receives from the fits k.. made for window j
RECURSIVE Contributions(_, _, _, _)
Contributions(fits, k, j, t) ==
    IF k > Len(fits) THEN 0
    ELSE (IF fits[k].i = j THEN harmonic_x_f(fits[k].x, t, fits[k].x[3]) ELSE 0)
         + Contributions(fits, k + 1, j, t)

\* C12: the estimate has the length N of the input; with windows of W samples
\* (N >= W), window j covering [j*W, (j+1)*W), every sample n < floor(N/W)*W
\* holds the sum, over the target frequencies, of the harmonic of window
\* floor(n/W) alone, and every sample from floor(N/W)*W on is 0.
C12_OutputComposition ==
    (NotchDone /\ Len(args.series.values) >= args.window) =>
        LET N == Len(args.series.values)
            W == args.window
        IN  /\ Len(result.vec) = N
            /\ \A n \in 0..(N - 1) :
                  At(result.vec, n) =
                      IF n < (N \div W) * W
                      THEN Contributions(locals.fits, 1, n \div W, At(args.series.index, n))
                      ELSE 0
            /\ \A f \in 1..Len(args.notch_frequencies), j \in 0..((N \div W) - 1) :
                  Cardinality({k \in 1..Len(locals.fits) :
                                  locals.fits[k].frequency = f /\ locals.fits[k].i = j}) = 1

\* three samples in windows of two: one window per frequency, two frequencies
\* adding up in the covered samples, the last sample not covered
C12_Witness ==
    /\ NotchDone
    /\ Len(args.series.values) = 3 /\ args.window = 2
    /\ Len(args.notch_frequencies) = 2
    /\ Len(locals.fits) = 2
    /\ At(result.vec, 0) # 0 /\ At(result.vec, 1) # 0 /\ At(result.vec, 2) = 0
    /\ At(result.vec, 0) # harmonic_x_f(locals.fits[1].x, At(args.series.index, 0), locals.fits[1].x[3])

(***************************************************************************)
(* The library as a whole: one call of any of the functions.               *)
(***************************************************************************)
Init == StrideInit \/ TransitionsInit \/ RecognitionInit \/ VggInit \/ SmartInit \/ NotchInit

Next == StrideNext \/ TransitionsNext \/ RecognitionNext \/ VggNext \/ SmartNext \/ NotchNext

Spec == Init /\ [][Next]_vars

====
